---- MODULE Spec2Model ----
(***************************************************************************)
(* X11Window::Impl of kodo/platform/linux/window.cc: the host side of an   *)
(* XEmbed socket.  One instance owns the main window (xWindow), the        *)
(* container (plugParentWindow) and the embedded child (plugWindow), and   *)
(* implements Linux::IRunLoop on top of the process-wide RunLoop.          *)
(*                                                                         *)
(* Every action is one call into the instance: a public method, an         *)
(* IRunLoop method, or the delivery of one XEvent to one of the two        *)
(* registered callbacks.  `out' is the ordered list of Xlib requests,      *)
(* RunLoop calls and controller callbacks issued by the last call.         *)
(***************************************************************************)
EXTENDS Integers, Sequences, FiniteSets, TLC

(* ------------------------------ bounds --------------------------------- *)
MaxFd == 2
MaxTimer == 2
MaxDim == 3
MaxCount == 2

(* --------------------- identifiers of the X server --------------------- *)
\* Window 0 / Atom 0 are Xlib's None; a display is either the pointer passed
\* to init ("open") or nullptr ("null").
None == 0
MainWin == 1
PlugParent == 2
ChildA == 3
ChildB == 4
Children == {ChildA, ChildB}
\* xWindow selects StructureNotify and SubstructureNotify: the events its
\* callback sees are about xWindow itself or about its child.
EventWindows == {MainWin, PlugParent}
\* parents a CreateNotify can name: the container, or an embedded child
\* that creates a window of its own
Parents == {PlugParent, ChildA}

AtomXEmbedInfo == 1
AtomXEmbed == 2
AtomOther == 3
MessageTypes == {None, AtomXEmbed, AtomOther}

XEMBED_EMBEDDED_NOTIFY == 0
XEMBED_WINDOW_ACTIVATE == 1
XEMBED_WINDOW_DEACTIVATE == 2
XEMBED_REQUEST_FOCUS == 3
XEMBED_FOCUS_IN == 4
XEMBED_MAPPED == 1

Handlers == {"h1", "h2"}
NullHandler == "nullptr"
HandlerArgs == Handlers \cup {NullHandler}
FDs == 1..MaxFd
TimerIDs == 1..MaxTimer
Intervals == {0, 10}
\* three distinct sizes let an event size, its constrained size and the
\* current size all differ
Sizes == [width : 1..MaxDim, height : {1}]
ZeroSize == [width |-> 0, height |-> 0]

\* _XEMBED_INFO as the child stored it: two CARD32 items, or nothing readable.
Versions == {0, 1}
NoProp == [readable |-> FALSE, version |-> 0, flags |-> 0]
ChildProps == {NoProp} \cup
              [readable : {TRUE}, version : Versions, flags : {0, XEMBED_MAPPED}]
NullInfo == [null |-> TRUE, version |-> 0, flags |-> 0]

VARIABLES
  longBits,          \* width of `long' in this build (ILP32 or LP64, little endian)
  proc,              \* "new", "running", "failed" (init returned false), "exited"
  exitReason,        \* "", "exit", "abort", "xerror", "segv"
  xDisplay, xWindow, plugParentWindow, plugWindow,
  xembedInfo, xEmbedInfoAtom, xEmbedAtom, isMapped, mCurrentSize,
  hasClosedFunc,     \* windowClosedFunc is non-empty
  eventHandlers,     \* fd -> handler, partial
  timerHandlers,     \* timer id -> handler, partial
  rlWindows,         \* windows this instance has registered with RunLoop
  rlFds,             \* fds registered and not unregistered with RunLoop
  rlTimers,          \* timer ids registered and not unregistered with RunLoop
  lastOp,            \* the last call, its arguments and its return value
  out,               \* requests and callbacks issued by the last call, in order
  embedded,          \* windows that were ever sent XEMBED_EMBEDDED_NOTIFY
  createSeen,        \* a CreateNotify under plugParentWindow reached handlePlugEvent
  ctrlOnCloseCalls,  \* number of controller->onClose calls (saturating)
  closedFuncCalls    \* number of windowClosedFunc calls (saturating)

vars == <<longBits, proc, exitReason, xDisplay, xWindow, plugParentWindow,
          plugWindow, xembedInfo, xEmbedInfoAtom, xEmbedAtom, isMapped,
          mCurrentSize, hasClosedFunc, eventHandlers, timerHandlers,
          rlWindows, rlFds, rlTimers, lastOp, out, embedded, createSeen,
          ctrlOnCloseCalls, closedFuncCalls>>

xvars == <<xDisplay, xWindow, plugParentWindow, plugWindow, xembedInfo,
           xEmbedInfoAtom, xEmbedAtom, isMapped, mCurrentSize, hasClosedFunc>>
loopvars == <<eventHandlers, timerHandlers, rlFds, rlTimers>>
procvars == <<proc, exitReason>>
countvars == <<ctrlOnCloseCalls, closedFuncCalls>>

(* ------------------------------ requests ------------------------------- *)
\* One entry of `out'.  dpy is the Display* the request was issued on; for a
\* callback it is the value of xDisplay the callee can observe.
Req(kind, dpy, w) ==
  [kind |-> kind, dpy |-> dpy, w |-> w, msg |-> -1, data1 |-> 0, data2 |-> 0,
   size |-> ZeroSize]
ReqSize(kind, dpy, w, size) ==
  [kind |-> kind, dpy |-> dpy, w |-> w, msg |-> -1, data1 |-> 0, data2 |-> 0,
   size |-> size]

\* send_xembed_message: one XSendEvent of a ClientMessage to w, then XSync.
send_xembed_message(dpy, w, message, data1, data2) ==
  <<[kind |-> "XSendEvent", dpy |-> dpy, w |-> w, msg |-> message,
     data1 |-> data1, data2 |-> data2, size |-> ZeroSize]>>

XKinds == {"XSendEvent", "XMapWindow", "XUnmapWindow", "XResizeWindow",
           "XClearWindow", "XFillRectangle", "XFreeGC", "XDestroyWindow",
           "XGetGeometry", "XGetAtomName", "XGetWindowProperty", "XInternAtom",
           "XCreateWindow", "XCreateGC", "XSync"}
IsXCall(r) == r.kind \in XKinds
UsesNullDisplay(reqs) ==
  \E i \in 1..Len(reqs) : IsXCall(reqs[i]) /\ reqs[i].dpy = "null"
FirstNull(reqs) ==
  CHOOSE i \in 1..Len(reqs) :
    /\ IsXCall(reqs[i]) /\ reqs[i].dpy = "null"
    /\ \A j \in 1..(i - 1) : ~(IsXCall(reqs[j]) /\ reqs[j].dpy = "null")

\* What lastOp keeps of a call: the method, the event type and the event
\* fields the handler reads, the IRunLoop arguments, and the return value.
Op(name, type, window, handler, res) ==
  [name |-> name, type |-> type, window |-> window, handler |-> handler,
   res |-> res, key |-> 0, ms |-> 0, parent |-> None, prop |-> NoProp,
   mtype |-> None, l1 |-> -1, size |-> ZeroSize, constraint |-> ZeroSize,
   atom |-> None]
\* init(name, size, ...): the requested size and what XInternAtom gave for
\* "_XEMBED_INFO".
InitOp(size, atom, res) ==
  [Op("init", "", None, NullHandler, res) EXCEPT !.size = size, !.atom = atom]
\* A ConfigureNotify for xWindow: the event's size and, when constrainSize
\* was called, the size it returned.
ConfigureOp(window, size, constraint) ==
  [Op("handleMainWindowEvent", "ConfigureNotify", window, NullHandler, "true")
     EXCEPT !.size = size, !.constraint = constraint]
KeyOp(name, key, ms, handler, res) ==
  [Op(name, "", None, handler, res) EXCEPT !.key = key, !.ms = ms]

Bump(n) == IF n < MaxCount THEN n + 1 ELSE n

\* The record of what has been embedded follows from what was sent.
Emit(reqs) ==
  /\ out' = reqs
  /\ embedded' = embedded \cup
       {reqs[i].w : i \in {j \in 1..Len(reqs) :
            /\ reqs[j].kind = "XSendEvent"
            /\ reqs[j].msg = XEMBED_EMBEDDED_NOTIFY
            /\ reqs[j].dpy = "open"}}

(* ------------------- unordered_map<K, IPtr<handler>> ------------------ *)
EmptyMap == [k \in {} |-> NullHandler]
\* emplace: inserts unless the key is present.
Emplace(m, k, v) ==
  IF k \in DOMAIN m THEN m
  ELSE [x \in DOMAIN m \cup {k} |-> IF x = k THEN v ELSE m[x]]
\* erase(it)
Erase(m, k) == [x \in DOMAIN m \ {k} |-> m[x]]
\* the entries a begin()..end() scan can stop at first: iteration order of an
\* unordered_map is unspecified, so any entry holding the handler may be first.
FirstMatches(m, handler) == {k \in DOMAIN m : m[k] = handler}

(* -------------------------------- Init --------------------------------- *)
Init ==
  /\ longBits \in {32, 64}
  /\ proc = "new"
  /\ exitReason = ""
  /\ xDisplay = "null"
  /\ xWindow = None
  /\ plugParentWindow = None
  /\ plugWindow = None
  /\ xembedInfo = NullInfo
  /\ xEmbedInfoAtom = None
  /\ xEmbedAtom = None
  /\ isMapped = FALSE
  /\ mCurrentSize = ZeroSize
  /\ hasClosedFunc = FALSE
  /\ eventHandlers = EmptyMap
  /\ timerHandlers = EmptyMap
  /\ rlWindows = {}
  /\ rlFds = {}
  /\ rlTimers = {}
  /\ lastOp = Op("construct", "", None, NullHandler, "")
  /\ out = <<>>
  /\ embedded = {}
  /\ createSeen = FALSE
  /\ ctrlOnCloseCalls = 0
  /\ closedFuncCalls = 0

(* ------------------------------- resize -------------------------------- *)
\* resize(newSize, force): the requests it issues and the size it leaves.
resize(dpy, xw, ppw, cur, newSize, force) ==
  IF ~force /\ cur = newSize
  THEN [reqs |-> <<>>, size |-> cur]
  ELSE [reqs |-> (IF xw # None
                    THEN <<ReqSize("XResizeWindow", dpy, xw, newSize)>>
                    ELSE <<>>)
                 \o (IF ppw # None
                       THEN <<ReqSize("XResizeWindow", dpy, ppw, newSize)>>
                       ELSE <<>>),
        size |-> newSize]

(* ---------------------- X11Window::make / init ------------------------- *)
\* The windows a list of requests registers with the run loop.
RegisteredBy(reqs) ==
  {reqs[i].w : i \in {j \in 1..Len(reqs) :
                        reqs[j].kind = "RunLoop.registerWindow"}}

\* Variant: the callback for xWindow is never registered.
InitReqsPlugOnly(size) ==
  <<Req("XInternAtom", "open", None), Req("XCreateWindow", "open", MainWin)>>
  \o <<ReqSize("XResizeWindow", "open", MainWin, size),
       Req("XCreateGC", "open", MainWin),
       Req("XCreateWindow", "open", PlugParent),
       Req("XMapWindow", "open", PlugParent),
       Req("RunLoop.registerWindow", "open", PlugParent)>>

\* The requests of a successful init that touch windows, the GC or the run
\* loop, in source order (input selection, hints, title and protocols change
\* nothing this instance reads back).
InitReqs(size) ==
  <<Req("XInternAtom", "open", None), Req("XCreateWindow", "open", MainWin)>>
  \o resize("open", MainWin, None, ZeroSize, size, TRUE).reqs
  \o <<Req("XCreateGC", "open", MainWin),
       Req("XCreateWindow", "open", PlugParent),
       Req("XMapWindow", "open", PlugParent),
       Req("RunLoop.registerWindow", "open", PlugParent),
       Req("RunLoop.registerWindow", "open", MainWin)>>

init ==
  /\ proc = "new"
  /\ \E size \in Sizes, closedFunc \in BOOLEAN,
        atomExists \in BOOLEAN, visualOk \in BOOLEAN :
       /\ hasClosedFunc' = closedFunc
       /\ xDisplay' = "open"
       /\ IF ~atomExists
          THEN \* XInternAtom(..., only_if_exists) gave None: return false
               /\ proc' = "failed" /\ exitReason' = ""
               /\ xEmbedInfoAtom' = None
               /\ Emit(<<Req("XInternAtom", "open", None)>>)
               /\ lastOp' = InitOp(size, None, "false")
               /\ UNCHANGED <<xWindow, plugParentWindow, mCurrentSize, rlWindows>>
          ELSE IF ~visualOk
          THEN \* XMatchVisualInfo failed: exit(-1)
               /\ proc' = "exited" /\ exitReason' = "exit"
               /\ xEmbedInfoAtom' = AtomXEmbedInfo
               /\ Emit(<<Req("XInternAtom", "open", None)>>)
               /\ lastOp' = InitOp(size, AtomXEmbedInfo, "")
               /\ UNCHANGED <<xWindow, plugParentWindow, mCurrentSize, rlWindows>>
          ELSE /\ proc' = "running" /\ exitReason' = ""
               /\ xEmbedInfoAtom' = AtomXEmbedInfo
               /\ xWindow' = MainWin
               /\ mCurrentSize' =
                    resize("open", MainWin, None, mCurrentSize, size, TRUE).size
               /\ plugParentWindow' = PlugParent
               /\ rlWindows' = rlWindows \cup RegisteredBy(InitReqs(size))
               /\ Emit(InitReqs(size))
               /\ lastOp' = InitOp(size, AtomXEmbedInfo, "true")
  /\ UNCHANGED <<longBits, plugWindow, xembedInfo, xEmbedAtom, isMapped,
                 loopvars, createSeen, countvars>>

(* ------------------------- Linux::IRunLoop ----------------------------- *)
\* Variant: only the null handler is refused.
registerEventHandlerAnyFd(handlers, handler, fd) ==
  IF handler = NullHandler THEN "kInvalidArgument" ELSE "kResultTrue"

registerEventHandlerResult(handlers, handler, fd) ==
  IF handler = NullHandler \/ fd \in DOMAIN handlers
  THEN "kInvalidArgument" ELSE "kResultTrue"

registerEventHandler ==
  /\ proc = "running"
  /\ \E handler \in HandlerArgs, fd \in FDs :
       LET res == registerEventHandlerResult(eventHandlers, handler, fd) IN
       /\ lastOp' = KeyOp("registerEventHandler", fd, 0, handler, res)
       /\ IF res = "kResultTrue"
          THEN /\ rlFds' = rlFds \cup {fd}
               /\ eventHandlers' = Emplace(eventHandlers, fd, handler)
               /\ Emit(<<Req("RunLoop.registerFileDescriptor", "open", fd)>>)
          ELSE /\ UNCHANGED <<rlFds, eventHandlers>>
               /\ Emit(<<>>)
  /\ UNCHANGED <<longBits, procvars, xvars, timerHandlers, rlTimers, rlWindows,
                 createSeen, countvars>>

unregisterEventHandler ==
  /\ proc = "running"
  /\ \E handler \in HandlerArgs :
       IF handler = NullHandler
       THEN /\ lastOp' = KeyOp("unregisterEventHandler", 0, 0, handler,
                               "kInvalidArgument")
            /\ Emit(<<>>)
            /\ UNCHANGED <<rlFds, eventHandlers>>
       ELSE IF FirstMatches(eventHandlers, handler) = {}
       THEN /\ lastOp' = KeyOp("unregisterEventHandler", 0, 0, handler,
                               "kResultFalse")
            /\ Emit(<<>>)
            /\ UNCHANGED <<rlFds, eventHandlers>>
       ELSE \E fd \in FirstMatches(eventHandlers, handler) :
            /\ lastOp' = KeyOp("unregisterEventHandler", fd, 0, handler,
                               "kResultTrue")
            /\ rlFds' = rlFds \ {fd}
            /\ eventHandlers' = Erase(eventHandlers, fd)
            /\ Emit(<<Req("RunLoop.unregisterFileDescriptor", "open", fd)>>)
  /\ UNCHANGED <<longBits, procvars, xvars, timerHandlers, rlTimers, rlWindows,
                 createSeen, countvars>>

registerTimerResult(handler, milliseconds) ==
  IF handler = NullHandler \/ milliseconds = 0
  THEN "kInvalidArgument" ELSE "kResultTrue"

\* RunLoop::registerTimer hands out an id that no live timer has.
RunLoopNewTimerIds(live) == TimerIDs \ live

registerTimer ==
  /\ proc = "running"
  /\ \E handler \in HandlerArgs, milliseconds \in Intervals :
       LET res == registerTimerResult(handler, milliseconds) IN
       IF res = "kResultTrue"
       THEN \E id \in RunLoopNewTimerIds(rlTimers) :
            /\ lastOp' = KeyOp("registerTimer", id, milliseconds, handler, res)
            /\ rlTimers' = rlTimers \cup {id}
            /\ timerHandlers' = Emplace(timerHandlers, id, handler)
            /\ Emit(<<Req("RunLoop.registerTimer", "open", id)>>)
       ELSE /\ lastOp' = KeyOp("registerTimer", 0, milliseconds, handler, res)
            /\ UNCHANGED <<rlTimers, timerHandlers>>
            /\ Emit(<<>>)
  /\ UNCHANGED <<longBits, procvars, xvars, eventHandlers, rlFds, rlWindows,
                 createSeen, countvars>>

\* Variant: an unknown handler is answered as unregisterEventHandler does.
unregisterTimerResultFalse(handlers, handler) ==
  IF handler = NullHandler THEN "kInvalidArgument"
  ELSE IF FirstMatches(handlers, handler) = {} THEN "kResultFalse"
  ELSE "kResultTrue"

unregisterTimerResult(handlers, handler) ==
  IF handler = NullHandler THEN "kInvalidArgument"
  ELSE IF FirstMatches(handlers, handler) = {} THEN "kNotImplemented"
  ELSE "kResultTrue"

unregisterTimer ==
  /\ proc = "running"
  /\ \E handler \in HandlerArgs :
       LET res == unregisterTimerResult(timerHandlers, handler) IN
       IF res = "kResultTrue"
       THEN \E id \in FirstMatches(timerHandlers, handler) :
            /\ lastOp' = KeyOp("unregisterTimer", id, 0, handler, res)
            /\ rlTimers' = rlTimers \ {id}
            /\ timerHandlers' = Erase(timerHandlers, id)
            /\ Emit(<<Req("RunLoop.unregisterTimer", "open", id)>>)
       ELSE /\ lastOp' = KeyOp("unregisterTimer", 0, 0, handler, res)
            /\ UNCHANGED <<rlTimers, timerHandlers>>
            /\ Emit(<<>>)
  /\ UNCHANGED <<longBits, procvars, xvars, eventHandlers, rlFds, rlWindows,
                 createSeen, countvars>>

(* --------------------- outcome of one call ----------------------------- *)
\* An Xlib call on a null Display* dereferences it: the call either faults
\* there (the process dies with the requests issued so far) or returns.
Crash(op, reqs) ==
  /\ UsesNullDisplay(reqs)
  /\ proc' = "exited" /\ exitReason' = "segv"
  /\ lastOp' = [op EXCEPT !.res = "segv"]
  /\ Emit(SubSeq(reqs, 1, FirstNull(reqs)))

Return(op, reqs) ==
  /\ UNCHANGED procvars
  /\ lastOp' = op
  /\ Emit(reqs)

\* exit(-1), a failed assert, or Xlib's default error handler.
Terminate(op, reqs, why) ==
  /\ proc' = "exited" /\ exitReason' = why
  /\ lastOp' = [op EXCEPT !.res = why]
  /\ Emit(reqs)

(* ------------------------- public methods ------------------------------ *)
show ==
  /\ proc = "running"
  /\ LET op == Op("show", "", None, NullHandler, "")
         reqs == <<Req("XMapWindow", xDisplay, xWindow)>> IN
     Return(op, reqs) \/ Crash(op, reqs)
  /\ UNCHANGED <<longBits, xvars, loopvars, rlWindows, createSeen, countvars>>

close ==
  /\ proc = "running"
  /\ LET op == Op("close", "", None, NullHandler, "")
         reqs == <<Req("XUnmapWindow", xDisplay, xWindow)>> IN
     Return(op, reqs) \/ Crash(op, reqs)
  /\ UNCHANGED <<longBits, xvars, loopvars, rlWindows, createSeen, countvars>>

getSize ==
  /\ proc = "running"
  /\ LET op == Op("getSize", "", None, NullHandler, "")
         reqs == <<Req("XGetGeometry", xDisplay, xWindow)>> IN
     Return(op, reqs) \/ Crash(op, reqs)
  /\ UNCHANGED <<longBits, xvars, loopvars, rlWindows, createSeen, countvars>>

\* X11Window::resize(newSize) is impl->resize(newSize, false).
resizeOp ==
  /\ proc = "running"
  /\ \E newSize \in Sizes :
       LET op == Op("resize", "", None, NullHandler, "")
           r == resize(xDisplay, xWindow, plugParentWindow, mCurrentSize,
                       newSize, FALSE) IN
       \/ Return(op, r.reqs) /\ mCurrentSize' = r.size
       \/ Crash(op, r.reqs) /\ UNCHANGED mCurrentSize
  /\ UNCHANGED <<longBits, xDisplay, xWindow, plugParentWindow, plugWindow,
                 xembedInfo, xEmbedInfoAtom, xEmbedAtom, isMapped,
                 hasClosedFunc, loopvars, rlWindows, createSeen, countvars>>

(* ------------------------------ onClose -------------------------------- *)
\* Variant: xWindow survives onClose.
onCloseKeepsWindow(dpy, xw, closedFunc) ==
  [reqs |-> <<Req("XFreeGC", dpy, xw), Req("XDestroyWindow", dpy, xw)>>
            \o (IF closedFunc THEN <<Req("windowClosedFunc", "null", xw)>>
                ELSE <<>>),
   xDisplay |-> "null", xWindow |-> xw, isMapped |-> FALSE]

\* Impl::onClose: the requests it issues and the fields it leaves.  The
\* windowClosedFunc entry carries the xDisplay and xWindow that the callee
\* finds, i.e. the cleared ones.
onClose(dpy, xw, closedFunc) ==
  [reqs |-> <<Req("XFreeGC", dpy, xw), Req("XDestroyWindow", dpy, xw)>>
            \o (IF closedFunc THEN <<Req("windowClosedFunc", "null", None)>>
                ELSE <<>>),
   xDisplay |-> "null", xWindow |-> None, isMapped |-> FALSE]

\* case UnmapNotify / case ClientMessage of handleMainWindowEvent, taken
\* when the event's window is xWindow.
CloseSequence(dpy, xw, closedFunc) ==
  LET c == onClose(dpy, xw, closedFunc) IN
  [c EXCEPT !.reqs = <<Req("controller.onClose", dpy, xw)>> \o c.reqs]

(* ----------------------- handleMainWindowEvent ------------------------- *)
MainExpose ==
  \E count \in {0, 1} :
    LET op == Op("handleMainWindowEvent", "Expose", None, NullHandler, "true")
        reqs == IF count = 0
                THEN <<Req("XClearWindow", xDisplay, xWindow),
                       ReqSize("XFillRectangle", xDisplay, xWindow, mCurrentSize)>>
                ELSE <<>> IN
    /\ Return(op, reqs) \/ Crash(op, reqs)
    /\ UNCHANGED <<xvars, countvars>>

\* Variant: the size of the event is kept, the constrained size only resizes
\* the windows.
ConfigureResultKeepsEventSize(dpy, xw, ppw, cur, size, constraintSize) ==
  IF cur = size THEN [reqs |-> <<>>, size |-> cur]
  ELSE [reqs |-> <<ReqSize("controller.constrainSize", dpy, xw, size),
                   ReqSize("controller.onResize", dpy, xw, size)>>
                 \o resize(dpy, xw, ppw, size, constraintSize, TRUE).reqs,
        size |-> size]

\* The requests and the resulting mCurrentSize of case ConfigureNotify once
\* the event is known to be for xWindow; constraintSize is what
\* controller->constrainSize returned.
ConfigureResult(dpy, xw, ppw, cur, size, constraintSize) ==
  IF cur = size THEN [reqs |-> <<>>, size |-> cur]
  ELSE
    LET first == IF constraintSize # cur
                 THEN [reqs |-> <<ReqSize("controller.onResize", dpy, xw, size)>>,
                       size |-> size]
                 ELSE [reqs |-> <<>>, size |-> cur]
        second == IF constraintSize # size
                  THEN resize(dpy, xw, ppw, first.size, constraintSize, TRUE)
                  ELSE [reqs |-> (IF ppw # None
                                  THEN <<ReqSize("XResizeWindow", dpy, ppw, size)>>
                                  ELSE <<>>),
                        size |-> first.size]
    IN [reqs |-> <<ReqSize("controller.constrainSize", dpy, xw, size)>>
                 \o first.reqs \o second.reqs,
        size |-> second.size]

MainConfigureNotify ==
  \E window \in EventWindows :
    IF window # xWindow
    THEN /\ Return(Op("handleMainWindowEvent", "ConfigureNotify", window,
                      NullHandler, "false"), <<>>)
         /\ UNCHANGED <<xvars, countvars>>
    ELSE \E size \in Sizes, constraintSize \in Sizes :
         LET r == ConfigureResult(xDisplay, xWindow, plugParentWindow,
                                  mCurrentSize, size, constraintSize)
             op == ConfigureOp(window, size,
                               IF mCurrentSize # size THEN constraintSize
                               ELSE ZeroSize) IN
         /\ \/ Return(op, r.reqs) /\ mCurrentSize' = r.size
            \/ Crash(op, r.reqs) /\ UNCHANGED mCurrentSize
         /\ UNCHANGED <<xDisplay, xWindow, plugParentWindow, plugWindow,
                        xembedInfo, xEmbedInfoAtom, xEmbedAtom, isMapped,
                        hasClosedFunc, countvars>>

MainMapNotify ==
  \E window \in EventWindows :
    IF window = xWindow /\ ~isMapped
    THEN /\ Return(Op("handleMainWindowEvent", "MapNotify", window,
                      NullHandler, "true"),
                   <<Req("controller.onShow", xDisplay, xWindow)>>)
         /\ isMapped' = TRUE
         /\ UNCHANGED <<xDisplay, xWindow, plugParentWindow, plugWindow,
                        xembedInfo, xEmbedInfoAtom, xEmbedAtom, mCurrentSize,
                        hasClosedFunc, countvars>>
    ELSE /\ Return(Op("handleMainWindowEvent", "MapNotify", window,
                      NullHandler, "false"), <<>>)
         /\ UNCHANGED <<xvars, countvars>>

\* UnmapNotify tests event.xunmap.window, ClientMessage event.xany.window.
MainClose(type) ==
  \E window \in EventWindows :
    IF window = xWindow
    THEN LET c == CloseSequence(xDisplay, xWindow, hasClosedFunc)
             op == Op("handleMainWindowEvent", type, window, NullHandler,
                      "true") IN
         /\ \/ /\ Return(op, c.reqs)
               /\ xDisplay' = c.xDisplay
               /\ xWindow' = c.xWindow
               /\ isMapped' = c.isMapped
               /\ ctrlOnCloseCalls' = Bump(ctrlOnCloseCalls)
               /\ closedFuncCalls' = IF hasClosedFunc THEN Bump(closedFuncCalls)
                                     ELSE closedFuncCalls
            \/ /\ Crash(op, c.reqs)
               /\ ctrlOnCloseCalls' = Bump(ctrlOnCloseCalls)
               /\ UNCHANGED <<xDisplay, xWindow, isMapped, closedFuncCalls>>
         /\ UNCHANGED <<plugParentWindow, plugWindow, xembedInfo,
                        xEmbedInfoAtom, xEmbedAtom, mCurrentSize, hasClosedFunc>>
    ELSE /\ Return(Op("handleMainWindowEvent", type, window, NullHandler,
                      "false"), <<>>)
         /\ UNCHANGED <<xvars, countvars>>

MainUnmapNotify == MainClose("UnmapNotify")

MainClientMessage == MainClose("ClientMessage")

MainDestroyNotify ==
  /\ Return(Op("handleMainWindowEvent", "DestroyNotify", None, NullHandler,
               "false"), <<>>)
  /\ UNCHANGED <<xvars, countvars>>

\* case FocusIn / case FocusOut: forward activation when embed info is held.
FocusReqs(dpy, pw, ppw, info, message) ==
  IF ~info.null
  THEN send_xembed_message(dpy, pw, message, ppw, info.version)
  ELSE <<>>

MainFocus(type, message) ==
  LET op == Op("handleMainWindowEvent", type, None, NullHandler, "false")
      reqs == FocusReqs(xDisplay, plugWindow, plugParentWindow, xembedInfo,
                        message) IN
  /\ Return(op, reqs) \/ Crash(op, reqs)
  /\ UNCHANGED <<xvars, countvars>>

MainFocusIn == MainFocus("FocusIn", XEMBED_WINDOW_ACTIVATE)

MainFocusOut == MainFocus("FocusOut", XEMBED_WINDOW_DEACTIVATE)

MainResizeRequest ==
  \E window \in EventWindows :
    IF window # xWindow
    THEN /\ Return(Op("handleMainWindowEvent", "ResizeRequest", window,
                      NullHandler, "false"), <<>>)
         /\ UNCHANGED <<xvars, countvars>>
    ELSE \E request \in Sizes, constraintSize \in Sizes :
         LET r == IF mCurrentSize # request
                  THEN LET z == resize(xDisplay, xWindow, plugParentWindow,
                                       mCurrentSize, constraintSize, TRUE) IN
                       [z EXCEPT !.reqs =
                          <<ReqSize("controller.constrainSize", xDisplay,
                                    xWindow, request)>> \o z.reqs]
                  ELSE [reqs |-> <<>>, size |-> mCurrentSize]
             op == Op("handleMainWindowEvent", "ResizeRequest", window,
                      NullHandler, "true") IN
         /\ \/ Return(op, r.reqs) /\ mCurrentSize' = r.size
            \/ Crash(op, r.reqs) /\ UNCHANGED mCurrentSize
         /\ UNCHANGED <<xDisplay, xWindow, plugParentWindow, plugWindow,
                        xembedInfo, xEmbedInfoAtom, xEmbedAtom, isMapped,
                        hasClosedFunc, countvars>>

\* The callback registered for xWindow in init; it stays registered after
\* onClose, which unregisters nothing.
handleMainWindowEvent ==
  /\ proc = "running"
  /\ \/ MainExpose
     \/ MainConfigureNotify
     \/ MainMapNotify
     \/ MainUnmapNotify
     \/ MainClientMessage
     \/ MainDestroyNotify
     \/ MainFocusIn
     \/ MainFocusOut
     \/ MainResizeRequest
  /\ UNCHANGED <<longBits, loopvars, rlWindows, createSeen>>

(* --------------------------- getXEmbedInfo ----------------------------- *)
\* XGetWindowProperty hands back format-32 data as an array of long, and the
\* code reads it through an XEmbedInfo* (two uint32_t).  With a 32-bit long
\* the struct covers items 0 and 1; with a 64-bit long (little endian) it
\* covers the low and the high half of item 0, whose high half is the sign
\* extension of the 32-bit version (all ones, written -1, when bit 31 is set).
SignExtension(v) == IF v > 2147483647 THEN -1 ELSE 0

XEmbedInfoView(bits, prop) ==
  IF bits = 32
  THEN [null |-> FALSE, version |-> prop.version, flags |-> prop.flags]
  ELSE [null |-> FALSE, version |-> prop.version,
        flags |-> SignExtension(prop.version)]

\* nullptr when the property cannot be read.
getXEmbedInfo(bits, prop) ==
  IF ~prop.readable THEN NullInfo ELSE XEmbedInfoView(bits, prop)

\* xembedInfo->flags & XEMBED_MAPPED
MappedFlagSet(info) == (info.flags % 2) = 1

(* --------------------------- handlePlugEvent --------------------------- *)
\* case ClientMessage: the reply decided by message_type and data.l[1].
PlugClientReqs(dpy, pw, ppw, embedAtom, version, messageType, l1) ==
  <<Req("XGetAtomName", dpy, messageType)>>
  \o (IF messageType = embedAtom /\ l1 = XEMBED_REQUEST_FOCUS
      THEN send_xembed_message(dpy, pw, XEMBED_FOCUS_IN, ppw, version)
      ELSE <<>>)

PlugClientMessage ==
  \E messageType \in MessageTypes,
     l1 \in {XEMBED_REQUEST_FOCUS, XEMBED_FOCUS_IN} :
    LET op == [Op("handlePlugEvent", "ClientMessage", None, NullHandler,
                  "false") EXCEPT !.mtype = messageType, !.l1 = l1] IN
    /\ IF xDisplay = "open" /\ messageType = None
       THEN \* XGetAtomName(None) is a BadAtom error: Xlib's handler exits
            Terminate(op, <<Req("XGetAtomName", xDisplay, messageType)>>,
                      "xerror")
       ELSE \* reading xembedInfo->version through nullptr yields anything
            \E version \in (IF xembedInfo.null THEN Versions
                            ELSE {xembedInfo.version}) :
              LET reqs == PlugClientReqs(xDisplay, plugWindow,
                                         plugParentWindow, xEmbedAtom, version,
                                         messageType, l1) IN
              Return(op, reqs) \/ Crash(op, reqs)
    /\ UNCHANGED <<xvars, rlWindows, createSeen>>

PlugPropertyNotify ==
  \E atom \in {AtomXEmbedInfo, AtomOther} :
    LET op == Op("handlePlugEvent", "PropertyNotify", None, NullHandler,
                 "false")
        reqs == <<Req("XGetAtomName", xDisplay, atom)>> IN
    /\ Return(op, reqs) \/ Crash(op, reqs)
    /\ UNCHANGED <<xvars, rlWindows, createSeen>>

\* The five steps after the child has been accepted (lines 558-570).
Handshake(dpy, pw, ppw, size, version) ==
  send_xembed_message(dpy, pw, XEMBED_EMBEDDED_NOTIFY, ppw, version)
  \o <<Req("XMapWindow", dpy, pw), ReqSize("XResizeWindow", dpy, pw, size)>>
  \o send_xembed_message(dpy, pw, XEMBED_WINDOW_ACTIVATE, ppw, version)
  \o send_xembed_message(dpy, pw, XEMBED_FOCUS_IN, ppw, version)
  \o <<Req("XSync", dpy, None)>>

\* Variant: the parent test of case CreateNotify is dropped.
AcceptsCreateAnyParent(parent, ppw) == TRUE

\* Whether case CreateNotify goes on to embed event.xcreatewindow.window.
AcceptsCreate(parent, ppw) == parent = ppw

\* Whether the embed info read for the child stops the process.
RejectsInfo(info) == info.null \/ MappedFlagSet(info)

PlugCreateNotify ==
  \E parent \in Parents :
  \E window \in Children \ {parent},
     prop \in (IF AcceptsCreate(parent, plugParentWindow) THEN ChildProps
               ELSE {NoProp}),
     xembedAtomExists \in (IF AcceptsCreate(parent, plugParentWindow)
                           THEN BOOLEAN ELSE {FALSE}) :
    LET op == [Op("handlePlugEvent", "CreateNotify", window, NullHandler,
                  "true") EXCEPT !.parent = parent, !.prop = prop]
        get == <<Req("XGetWindowProperty", xDisplay, window)>>
        info == getXEmbedInfo(longBits, prop)
        atom == IF xEmbedAtom # None THEN xEmbedAtom
                ELSE IF xembedAtomExists THEN AtomXEmbed ELSE None
        reg == <<Req("RunLoop.registerWindow", xDisplay, window)>>
               \o (IF xEmbedAtom = None
                   THEN <<Req("XInternAtom", xDisplay, None)>> ELSE <<>>)
    IN
    IF ~AcceptsCreate(parent, plugParentWindow)
    THEN /\ Return(op, <<>>)
         /\ UNCHANGED <<xvars, rlWindows, createSeen>>
    ELSE
      /\ createSeen' = TRUE
      /\ plugWindow' = window
      /\ UNCHANGED <<xDisplay, xWindow, plugParentWindow, xEmbedInfoAtom,
                     isMapped, mCurrentSize, hasClosedFunc>>
      /\ IF xDisplay = "null"
         THEN \* XGetWindowProperty on nullptr: a fault, or an error return
              /\ \/ Crash(op, get)
                 \/ Terminate(op, get, "exit")
              /\ xembedInfo' = NullInfo
              /\ UNCHANGED <<xEmbedAtom, rlWindows>>
         ELSE IF RejectsInfo(info)
         THEN /\ Terminate(op, get, "exit")
              /\ xembedInfo' = info
              /\ UNCHANGED <<xEmbedAtom, rlWindows>>
         ELSE IF atom = None
         THEN \* assert(xEmbedAtom != None)
              /\ Terminate(op, get \o reg, "abort")
              /\ xembedInfo' = info
              /\ rlWindows' = rlWindows \cup {window}
              /\ UNCHANGED xEmbedAtom
         ELSE /\ Return(op, get \o reg
                            \o Handshake(xDisplay, window, plugParentWindow,
                                         mCurrentSize, info.version))
              /\ xembedInfo' = info
              /\ xEmbedAtom' = atom
              /\ rlWindows' = rlWindows \cup {window}

\* The callback registered for plugParentWindow in init and for every
\* accepted plugWindow.
handlePlugEvent ==
  /\ proc = "running"
  /\ \/ PlugClientMessage
     \/ PlugPropertyNotify
     \/ PlugCreateNotify
  /\ UNCHANGED <<longBits, loopvars, countvars>>

(* -------------------------- specifications ----------------------------- *)
Next ==
  \/ init
  \/ show
  \/ close
  \/ getSize
  \/ resizeOp
  \/ handleMainWindowEvent
  \/ handlePlugEvent
  \/ registerEventHandler
  \/ unregisterEventHandler
  \/ registerTimer
  \/ unregisterTimer

Spec == Init /\ [][Next]_vars

\* The window side: construction, the public methods and the two event
\* callbacks.  These never read or write the handler maps.
WindowNext ==
  \/ init
  \/ show
  \/ close
  \/ getSize
  \/ resizeOp
  \/ handleMainWindowEvent
  \/ handlePlugEvent

SpecWindow == Init /\ [][WindowNext]_vars

\* The IRunLoop side, one specification per handler map: construction, the
\* registration methods of that map, and the close of the window, after
\* which the methods remain callable.  The two maps share no state.
MainUnmapNotifyStep ==
  /\ proc = "running"
  /\ MainUnmapNotify
  /\ UNCHANGED <<longBits, loopvars, rlWindows, createSeen>>

EventHandlerNext ==
  \/ init
  \/ registerEventHandler
  \/ unregisterEventHandler
  \/ MainUnmapNotifyStep

SpecEventHandlers == Init /\ [][EventHandlerNext]_vars

TimerNext ==
  \/ init
  \/ registerTimer
  \/ unregisterTimer
  \/ MainUnmapNotifyStep

SpecTimers == Init /\ [][TimerNext]_vars

(* =============================== claims =============================== *)
IsPlugCreate(op) == op.name = "handlePlugEvent" /\ op.type = "CreateNotify"
IsMainEvent(op, type) == op.name = "handleMainWindowEvent" /\ op.type = type
PlugKinds == {"XSendEvent", "XMapWindow", "XResizeWindow"}
\* the requests of `reqs' that address window w, in order
ToWindow(reqs, w) == SelectSeq(reqs, LAMBDA r : r.kind \in PlugKinds /\ r.w = w)
Message(w, message, data1, data2) ==
  [kind |-> "XSendEvent", dpy |-> "open", w |-> w, msg |-> message,
   data1 |-> data1, data2 |-> data2, size |-> ZeroSize]

\* C1: over any sequence of events at most one child window per instance is
\* ever embedded (sent XEMBED_EMBEDDED_NOTIFY and registered with the run
\* loop); a later CreateNotify under plugParentWindow embeds no second one.
C1_SingleEmbeddedWindow ==
  Cardinality({w \in embedded : w \in rlWindows}) <= 1

\* C2: until a CreateNotify whose parent is plugParentWindow has been handled
\* nothing is sent to, mapped or resized on a plug window, and FocusIn,
\* FocusOut and XEMBED_REQUEST_FOCUS send nothing while no embed info is held;
\* a CreateNotify with another parent returns true and leaves plugWindow,
\* xembedInfo and every registration as they were.
C2_NothingBeforeCreate ==
  (~createSeen) =>
     /\ xembedInfo.null /\ plugWindow = None
     /\ \A i \in 1..Len(out) :
          /\ ~(out[i].kind \in PlugKinds /\ out[i].w \in Children)
          /\ ~(out[i].kind = "XSendEvent" /\ out[i].dpy = "open")
     /\ (IsMainEvent(lastOp, "FocusIn") \/ IsMainEvent(lastOp, "FocusOut"))
          => out = <<>>

C2_ForeignCreateIgnored ==
  (IsPlugCreate(lastOp') /\ lastOp'.parent # plugParentWindow) =>
     /\ lastOp'.res = "true"
     /\ out' = <<>>
     /\ UNCHANGED <<plugWindow, xembedInfo, xEmbedAtom, rlWindows, rlFds,
                    rlTimers, eventHandlers, timerHandlers, procvars>>

C2_WaitsForCreate == []C2_NothingBeforeCreate /\ [][C2_ForeignCreateIgnored]_vars

C2_Witness ==
  /\ proc = "running" /\ ~createSeen
  /\ IsPlugCreate(lastOp) /\ lastOp.parent = ChildA /\ lastOp.res = "true"

\* The child's _XEMBED_INFO is readable by the host with XEMBED_MAPPED clear.
C3_Readable ==
  /\ IsPlugCreate(lastOp) /\ lastOp.parent = plugParentWindow
  /\ xDisplay = "open"
  /\ lastOp.prop.readable /\ lastOp.prop.flags = 0

C3_HandshakeDone ==
  ToWindow(out, lastOp.window) =
    << Message(lastOp.window, XEMBED_EMBEDDED_NOTIFY, plugParentWindow,
               lastOp.prop.version),
       Req("XMapWindow", "open", lastOp.window),
       ReqSize("XResizeWindow", "open", lastOp.window, mCurrentSize),
       Message(lastOp.window, XEMBED_WINDOW_ACTIVATE, plugParentWindow,
               lastOp.prop.version),
       Message(lastOp.window, XEMBED_FOCUS_IN, plugParentWindow,
               lastOp.prop.version) >>

\* C3: a CreateNotify for a child of plugParentWindow whose _XEMBED_INFO is
\* readable with XEMBED_MAPPED clear is always followed by EMBEDDED_NOTIFY,
\* map, resize to mCurrentSize, WINDOW_ACTIVATE, FOCUS_IN on that child, in
\* this order, each message with data1 = plugParentWindow and data2 = the
\* version read.
C3_HandshakeAlways == C3_Readable => C3_HandshakeDone

\* The handshake is complete and ordered whenever the assert on xEmbedAtom
\* passes: the only way past a readable, unmapped child without it is the
\* failed assert.
HandshakeWhenAtomKnown ==
  (C3_Readable /\ xEmbedAtom # None) => C3_HandshakeDone
HandshakeMissedOnlyByAssert ==
  (C3_Readable /\ ~C3_HandshakeDone) => (proc = "exited" /\ exitReason = "abort")

\* C4: once a child is embedded every FocusIn sends exactly one
\* XEMBED_WINDOW_ACTIVATE to plugWindow, every FocusOut exactly one
\* XEMBED_WINDOW_DEACTIVATE, and every XEMBED_REQUEST_FOCUS is answered with
\* exactly one XEMBED_FOCUS_IN to plugWindow.
C4_FocusForwarded ==
  (plugWindow \in embedded /\ ~xembedInfo.null) =>
     /\ IsMainEvent(lastOp, "FocusIn") =>
          out = <<Message(plugWindow, XEMBED_WINDOW_ACTIVATE, plugParentWindow,
                          xembedInfo.version)>>
     /\ IsMainEvent(lastOp, "FocusOut") =>
          out = <<Message(plugWindow, XEMBED_WINDOW_DEACTIVATE,
                          plugParentWindow, xembedInfo.version)>>
     /\ (/\ lastOp.name = "handlePlugEvent" /\ lastOp.type = "ClientMessage"
         /\ lastOp.mtype = AtomXEmbed /\ lastOp.l1 = XEMBED_REQUEST_FOCUS) =>
          ToWindow(out, plugWindow) =
            <<Message(plugWindow, XEMBED_FOCUS_IN, plugParentWindow,
                      xembedInfo.version)>>

\* C5: registerEventHandler refuses a null handler or an fd already in
\* eventHandlers with kInvalidArgument and changes nothing; otherwise it adds
\* exactly (fd, handler), registers fd with the run loop and returns
\* kResultTrue; the fds of eventHandlers are always the fds registered with
\* the run loop.
C5_SameFds == DOMAIN eventHandlers = rlFds

C5_RegisterStep ==
  (lastOp'.name = "registerEventHandler") =>
     IF lastOp'.handler = NullHandler \/ lastOp'.key \in DOMAIN eventHandlers
     THEN /\ lastOp'.res = "kInvalidArgument"
          /\ UNCHANGED <<eventHandlers, rlFds>>
          /\ out' = <<>>
     ELSE /\ lastOp'.res = "kResultTrue"
          /\ DOMAIN eventHandlers' = DOMAIN eventHandlers \cup {lastOp'.key}
          /\ eventHandlers'[lastOp'.key] = lastOp'.handler
          /\ \A fd \in DOMAIN eventHandlers :
               eventHandlers'[fd] = eventHandlers[fd]
          /\ rlFds' = rlFds \cup {lastOp'.key}

C5_OneHandlerPerFd == []C5_SameFds /\ [][C5_RegisterStep]_vars

C5_Witness ==
  /\ lastOp.name = "registerEventHandler" /\ lastOp.res = "kInvalidArgument"
  /\ lastOp.handler \in Handlers
  /\ lastOp.key \in DOMAIN eventHandlers
  /\ eventHandlers[lastOp.key] # lastOp.handler

\* C6: registerTimer refuses a null handler or a zero interval with
\* kInvalidArgument and registers nothing, otherwise registers one run-loop
\* timer, records it under the returned id and returns kResultTrue;
\* unregisterTimer(h) removes exactly one of h's timers from timerHandlers
\* and the run loop and returns kResultTrue, returns kNotImplemented and
\* changes nothing when h is not recorded, kInvalidArgument when h is null.
C6_RegisterStep ==
  (lastOp'.name = "registerTimer") =>
     IF lastOp'.handler = NullHandler \/ lastOp'.ms = 0
     THEN /\ lastOp'.res = "kInvalidArgument"
          /\ UNCHANGED <<timerHandlers, rlTimers>>
          /\ out' = <<>>
     ELSE /\ lastOp'.res = "kResultTrue"
          /\ lastOp'.key \notin rlTimers
          /\ rlTimers' = rlTimers \cup {lastOp'.key}
          /\ DOMAIN timerHandlers' = DOMAIN timerHandlers \cup {lastOp'.key}
          /\ timerHandlers'[lastOp'.key] = lastOp'.handler
          /\ \A id \in DOMAIN timerHandlers :
               timerHandlers'[id] = timerHandlers[id]

C6_UnregisterStep ==
  (lastOp'.name = "unregisterTimer") =>
     IF lastOp'.handler = NullHandler
     THEN /\ lastOp'.res = "kInvalidArgument"
          /\ UNCHANGED <<timerHandlers, rlTimers>>
     ELSE IF \A id \in DOMAIN timerHandlers :
               timerHandlers[id] # lastOp'.handler
     THEN /\ lastOp'.res = "kNotImplemented"
          /\ UNCHANGED <<timerHandlers, rlTimers>>
          /\ out' = <<>>
     ELSE /\ lastOp'.res = "kResultTrue"
          /\ lastOp'.key \in DOMAIN timerHandlers
          /\ timerHandlers[lastOp'.key] = lastOp'.handler
          /\ DOMAIN timerHandlers' = DOMAIN timerHandlers \ {lastOp'.key}
          /\ \A id \in DOMAIN timerHandlers' :
               timerHandlers'[id] = timerHandlers[id]
          /\ rlTimers' = rlTimers \ {lastOp'.key}

C6_TimerRegistration ==
  [](DOMAIN timerHandlers = rlTimers)
  /\ [][C6_RegisterStep /\ C6_UnregisterStep]_vars

C6_Witness ==
  /\ lastOp.name = "unregisterTimer" /\ lastOp.res = "kResultTrue"
  /\ \E id \in DOMAIN timerHandlers : timerHandlers[id] = lastOp.handler
  /\ lastOp.key \notin rlTimers

\* C7: after unregisterEventHandler(h) returned kResultTrue no entry of
\* eventHandlers maps to h and no fd stays registered for h with the run loop.
C7_HandlerGone ==
  (lastOp.name = "unregisterEventHandler" /\ lastOp.res = "kResultTrue") =>
     /\ \A fd \in DOMAIN eventHandlers : eventHandlers[fd] # lastOp.handler
     /\ rlFds \subseteq DOMAIN eventHandlers

\* C8: the window closes exactly when handleMainWindowEvent handles an
\* UnmapNotify or a ClientMessage for xWindow; it then calls
\* controller->onClose, frees the GC, destroys the window, clears xDisplay,
\* xWindow and isMapped and last calls windowClosedFunc; controller->onClose
\* and windowClosedFunc each run at most once per instance.
C8_AtMostOnce == ctrlOnCloseCalls <= 1 /\ closedFuncCalls <= 1

C8_CloseStep ==
  LET closing == /\ lastOp'.name = "handleMainWindowEvent"
                 /\ lastOp'.type \in {"UnmapNotify", "ClientMessage"}
                 /\ lastOp'.window = xWindow
  IN /\ (xDisplay = "open" /\ xDisplay' = "null") <=> closing
     /\ (ctrlOnCloseCalls' # ctrlOnCloseCalls
         \/ closedFuncCalls' # closedFuncCalls) => closing
     /\ closing =>
          /\ out' = <<Req("controller.onClose", "open", xWindow),
                      Req("XFreeGC", "open", xWindow),
                      Req("XDestroyWindow", "open", xWindow)>>
                    \o (IF hasClosedFunc
                        THEN <<Req("windowClosedFunc", "null", None)>>
                        ELSE <<>>)
          /\ xDisplay' = "null" /\ xWindow' = None /\ ~isMapped'
          /\ ctrlOnCloseCalls' = ctrlOnCloseCalls + 1
          /\ closedFuncCalls' = closedFuncCalls + (IF hasClosedFunc THEN 1 ELSE 0)
          /\ lastOp'.res = "true"

C8_ClosesOnce == []C8_AtMostOnce /\ [][C8_CloseStep]_vars

C8_Witness ==
  /\ proc = "running" /\ xDisplay = "null" /\ xWindow = None
  /\ ctrlOnCloseCalls = 1 /\ closedFuncCalls = 1
  /\ lastOp.name = "handleMainWindowEvent"
  /\ lastOp.type \in {"UnmapNotify", "ClientMessage"}
  /\ lastOp.window = MainWin /\ lastOp.res = "false"

\* C9: after the window has been closed no later event or public call issues
\* an X request or XEMBED message on the cleared display.
C9_NoUseAfterClose ==
  /\ exitReason # "segv"
  /\ \A i \in 1..Len(out) : ~(IsXCall(out[i]) /\ out[i].dpy = "null")

\* C10: a CreateNotify for a child of plugParentWindow whose _XEMBED_INFO
\* cannot be read, or whose flags have XEMBED_MAPPED set, ends the process
\* before any message is sent to the child, before the host maps or resizes
\* it and before it is registered with the run loop.
C10_UnembeddableTerminates ==
  (/\ IsPlugCreate(lastOp) /\ lastOp.parent = plugParentWindow
   /\ (~lastOp.prop.readable \/ (lastOp.prop.flags % 2) = 1)) =>
     /\ proc = "exited"
     /\ ToWindow(out, lastOp.window) = <<>>
     /\ \A i \in 1..Len(out) : out[i].kind # "RunLoop.registerWindow"

\* C11: when the _XEMBED_INFO atom does not exist init returns false (make
\* returns nullptr) with no X window created and no window callback
\* registered with the run loop; when init returns true exactly xWindow and
\* plugParentWindow are registered with the run loop and mCurrentSize is the
\* requested size.
C11_InitStep ==
  (lastOp'.name = "init") =>
     /\ (lastOp'.atom = None) =>
          /\ lastOp'.res = "false" /\ proc' = "failed"
          /\ xWindow' = None /\ plugParentWindow' = None
          /\ rlWindows' = {}
          /\ \A i \in 1..Len(out') :
               out'[i].kind \notin {"XCreateWindow", "RunLoop.registerWindow"}
     /\ (lastOp'.res = "true") =>
          /\ proc' = "running" /\ lastOp'.atom # None
          /\ xWindow' # None /\ plugParentWindow' # None
          /\ xWindow' # plugParentWindow'
          /\ rlWindows' = {xWindow', plugParentWindow'}
          /\ RegisteredBy(out') = {xWindow', plugParentWindow'}
          /\ mCurrentSize' = lastOp'.size
          /\ lastOp'.size \in Sizes

C11_InitOutcome ==
  [](proc = "failed" => (xWindow = None /\ rlWindows = {}))
  /\ [][C11_InitStep]_vars

C11_Witness ==
  /\ lastOp.name = "init" /\ lastOp.res = "true"
  /\ rlWindows = {MainWin, PlugParent}
  /\ mCurrentSize = lastOp.size /\ mCurrentSize.width = MaxDim

C11_WitnessFailed ==
  /\ lastOp.name = "init" /\ lastOp.res = "false" /\ proc = "failed"

\* C12: a ConfigureNotify for xWindow whose size differs from mCurrentSize
\* leaves mCurrentSize equal to what controller->constrainSize returned for
\* the event's size; one whose size equals mCurrentSize, or one for another
\* window, leaves mCurrentSize unchanged and calls neither constrainSize nor
\* onResize.
C12_ConfigureStep ==
  IsMainEvent(lastOp', "ConfigureNotify") =>
     IF lastOp'.window = xWindow /\ lastOp'.size # mCurrentSize
     THEN /\ mCurrentSize' = lastOp'.constraint
          /\ \E i \in 1..Len(out') :
               /\ out'[i].kind = "controller.constrainSize"
               /\ out'[i].size = lastOp'.size
     ELSE /\ mCurrentSize' = mCurrentSize
          /\ \A i \in 1..Len(out') :
               out'[i].kind \notin {"controller.constrainSize",
                                    "controller.onResize"}

C12_ConfigureNotify == [][C12_ConfigureStep]_vars

\* the event size, the constrained size and the previous size all differed
C12_Witness ==
  /\ IsMainEvent(lastOp, "ConfigureNotify") /\ lastOp.window = MainWin
  /\ proc = "running" /\ xWindow = MainWin
  /\ lastOp.constraint \in Sizes /\ lastOp.constraint # lastOp.size
  /\ mCurrentSize = lastOp.constraint
  /\ Len(out) = 4 /\ out[2].kind = "controller.onResize"

====
